---- MODULE Spec2Model ----
(***************************************************************************)
(* Model of the task queue and worker-process supervision of the           *)
(* AssetRipper API server:                                                 *)
(*   app/core/task_queue.py   TaskQueueManager and the per-task pipeline   *)
(*   app/core/assetripper.py  AssetRipperManager (the supervisor)          *)
(*   app/api/v1/endpoints/upload.py  intake (row creation and enqueue)     *)
(*                                                                         *)
(* Coroutines are modelled at the granularity of their await points: one   *)
(* action is the code that runs between two suspensions.  A store update   *)
(* (execute + commit) takes effect in one step.  Task.cancel() delivers    *)
(* CancelledError at the await the task is suspended on; CancelledError    *)
(* is a BaseException, so no "except Exception" clause catches it.         *)
(***************************************************************************)
EXTENDS Integers, Sequences, FiniteSets, TLC

----------------------------------------------------------------------------
(* Bounds of the model *)

NumTasks == 2
MaxQueue == 2
MaxClock == 1
MaxWorkers == 2
MaxLoops == 2
MaxProcs == 2
MaxStops == 2
MaxUploads == 1

TaskIds == 1..NumTasks
WorkerIds == 1..MaxWorkers
LoopIds == 1..MaxLoops
ProcIds == 1..MaxProcs
Times == 0..MaxClock

----------------------------------------------------------------------------
(* Task rows (app/models.py) and status constants (app/schemas.py) *)

PENDING == "PENDING"
PROCESSING == "PROCESSING"
COMPLETED == "COMPLETED"
FAILED == "FAILED"
TaskStatus == {PENDING, PROCESSING, COMPLETED, FAILED}

\* NULL of a nullable DateTime / BigInteger / String column
Null == -1
\* NULL of the nullable error_message column
NoMessage == << >>

InterruptedMessage == <<"Interrupted by container restart">>
UploadMissing == <<"Unexpected error", "Upload file not found">>
AssetsMissing == <<"Unexpected error", "Assets directory not found after export">>
ClientNotInitialized == "AssetRipper client not initialized"

\* Outcomes of one HTTP call to the worker
HttpOutcomes == {"ok", "timeout", "status", "request"}
HttpFaults == HttpOutcomes \ {"ok"}

\* Recursive listings of an Assets directory (directory.rglob("*")): the
\* entries under it, each a file or a directory, with its st_size
AssetsListings ==
    { << >>,
      << [is_file |-> TRUE, st_size |-> 1], [is_file |-> FALSE, st_size |-> 4],
         [is_file |-> TRUE, st_size |-> 2] >> }

VARIABLES
    tasks,            \* the task store: id -> row, for the rows that exist
    queue,            \* TaskQueueManager.queue (asyncio.Queue, FIFO)
    running,          \* TaskQueueManager._running
    worker_task,      \* TaskQueueManager.worker_task: 0 (None) or a worker id
    current_task_id,  \* TaskQueueManager.current_task_id: 0 (None) or a task id
    workers,          \* the dispatch-loop tasks ever created: id -> frame
    life,             \* the caller of TaskQueueManager.start()/stop(): its frame
    now,              \* datetime.utcnow()
    loads,            \* history: id -> number of load_file invocations for it
    exports,          \* history: id -> number of export_primary_content
                      \* invocations for it
    resets            \* history: id -> number of reset invocations made by
                      \* the pipeline of it

VARIABLES
    use_external_host,  \* AssetRipperManager._use_external_host
    process,            \* AssetRipperManager.process: 0 (None) or a child id
    procs,              \* the children: id -> "none", "running" or "exited"
    client,             \* AssetRipperManager.client: 0 (None) or 1 (set)
    health_check_task,  \* AssetRipperManager.health_check_task: 0 or a loop id
    is_healthy,         \* AssetRipperManager._is_healthy
    restart_count,      \* AssetRipperManager._restart_count
    th                  \* the coroutines that run supervisor code: id -> frame

qvars == <<tasks, queue, running, worker_task, current_task_id, workers, life,
           now, loads,
                   exports, resets>>
svars == <<use_external_host, process, procs, client, health_check_task,
           is_healthy, restart_count, th>>
vars == <<qvars, svars>>

----------------------------------------------------------------------------
(* Frames of the coroutines *)

\* A dispatch loop (_worker) that was never created.  History: files is the
\* listing of the Assets directory that the pipeline measured, outcome how
\* the last HTTP call of the pipeline ended, upload_exists what
\* upload_path.exists() returned, raised the exception that the last call of
\* a supervisor method raised to the pipeline: << >> if it returned, else
\* the method and the class of the exception
NoWorker == [pc |-> "none", tid |-> 0, msg |-> NoMessage, stamp |-> Null,
             size |-> Null, files |-> << >>, outcome |-> "none",
             upload_exists |-> TRUE, raised |-> << >>, cancel |-> FALSE]

\* The caller of start()/stop() when it is in neither.  History: stranded
\* is the set of rows that were PROCESSING when the last start() was called,
\* inflight the task whose load or export call was in flight when the last
\* stop() was called (0: none), last the last call that did something
\* ("start", "stop") or the fact that the last call was a stop() that
\* returned at its guard ("stop_noop")
IdleLife == [pc |-> "idle", sel |-> {}, stamp |-> Null,
             stranded |-> {}, inflight |-> 0, last |-> "none"]

\* Positions of a dispatch loop inside _process_task
PipelinePcs == {"select", "begin", "load", "export", "reset", "complete", "markfail", "freset"}
AlivePcs == PipelinePcs \cup {"get"}

Alive(w) == workers[w].pc \in AlivePcs

----------------------------------------------------------------------------
(* Pure helpers *)

RECURSIVE SumSeq(_)
SumSeq(s) == IF s = << >> THEN 0 ELSE Head(s) + SumSeq(Tail(s))

\* get_directory_size: the loop over rglob("*") that adds st_size of every
\* entry that is a file
RECURSIVE get_directory_size(_)
get_directory_size(listing) ==
    IF listing = << >> THEN 0
    ELSE (IF Head(listing).is_file THEN Head(listing).st_size ELSE 0)
             + get_directory_size(Tail(listing))

\* The AssetRipperError message of a failed load_file / export_primary_content
LoadFault(outcome) ==
    CASE outcome = "timeout" -> "LoadFile timeout"
      [] outcome = "status"  -> "LoadFile failed with status"
      [] outcome = "request" -> "LoadFile request failed"

\* The class of the exception of a failed load_file / export_primary_content
LoadFaultClass(outcome) ==
    CASE outcome = "timeout" -> "AssetRipperError"
      [] outcome = "status"  -> "AssetRipperError"
      [] outcome = "request" -> "AssetRipperConnectionError"

ExportFaultClass(outcome) ==
    CASE outcome = "timeout" -> "AssetRipperError"
      [] outcome = "status"  -> "AssetRipperError"
      [] outcome = "request" -> "AssetRipperConnectionError"

\* "if not self.client: raise AssetRipperConnectionError(...)", the first
\* statement of load_file, export_primary_content and reset
NoClientClass == "AssetRipperConnectionError"

\* A variant of the export call whose faults all read alike
ExportFault_Generic(outcome) == "Export failed"

ExportFault(outcome) ==
    CASE outcome = "timeout" -> "Export timeout"
      [] outcome = "status"  -> "Export failed with status"
      [] outcome = "request" -> "Export request failed"

\* except AssetRipperError: the message handed to _mark_task_failed
AssetRipperErrorMessage(text) == <<"AssetRipper error", text>>

\* Task(...) as the upload endpoint creates it
NewRow(t) ==
    [status |-> PENDING, created_at |-> now, started_at |-> Null,
     completed_at |-> Null, export_path |-> Null, export_size_bytes |-> Null,
     error_message |-> NoMessage]

\* update(Task).where(Task.id == t).values(...): no row, no effect
UpdateRow(store, t, row) ==
    IF t \in DOMAIN store THEN [store EXCEPT ![t] = row] ELSE store

\* The values of the FAILED update of _mark_task_failed
FailedValues(row, stamp, msg) ==
    [row EXCEPT !.status = FAILED, !.completed_at = stamp, !.error_message = msg]

\* The values of the COMPLETED update of _process_task
CompletedValues(row, t, stamp, size) ==
    [row EXCEPT !.status = COMPLETED, !.completed_at = stamp,
                !.export_path = t, !.export_size_bytes = size,
                !.error_message = NoMessage]

----------------------------------------------------------------------------
(* Intake: the upload endpoint and add_task *)

\* add_task: queue.put on an unbounded queue
add_task(t) ==
    queue' = Append(queue, t)

\* get_queue_size: self.queue.qsize()
get_queue_size == Len(queue)

\* get_current_task_id: self.current_task_id, 0 for None
get_current_task_id == current_task_id

\* A variant of the dequeue that records the current task only later
WorkerGet_NoMarker(w) ==
    /\ workers[w].pc = "get"
    /\ ~workers[w].cancel
    /\ queue # << >>
    /\ queue' = Tail(queue)
    /\ workers' = [workers EXCEPT ![w].pc = "select", ![w].tid = Head(queue)]
    /\ UNCHANGED <<tasks, running, worker_task, current_task_id, life, now,
                   loads, exports, resets>>
    /\ UNCHANGED svars

\* upload_file: a new row, PENDING, committed, then queued
Upload(t) ==
    /\ t \notin DOMAIN tasks
    /\ Len(queue) < MaxQueue
    /\ tasks' = [x \in DOMAIN tasks \cup {t} |->
                    IF x = t THEN NewRow(t) ELSE tasks[x]]
    /\ add_task(t)
    /\ UNCHANGED <<running, worker_task, current_task_id, workers, life, now,
                   loads, exports, resets>>
    /\ UNCHANGED svars

\* add_task called again with an identifier already handed out
AddTask(t) ==
    /\ Len(queue) < MaxQueue
    /\ add_task(t)
    /\ UNCHANGED <<tasks, running, worker_task, current_task_id, workers, life,
                   now, loads,
                   exports, resets>>
    /\ UNCHANGED svars

----------------------------------------------------------------------------
(* The dispatch loop (_worker) and the pipeline (_process_task) *)

\* _process_task has returned: the finally clause of _worker, then the
\* loop condition "while self._running"
PipelineReturns(w) ==
    /\ current_task_id' = 0
    /\ workers' = [workers EXCEPT ![w] =
                      [NoWorker EXCEPT !.pc = IF running THEN "get" ELSE "done"]]

\* An exception is caught in _process_task: _mark_task_failed is entered,
\* which stamps completed_at and awaits the store
EnterMarkFailed(w, msg, outcome, exc) ==
    workers' = [workers EXCEPT ![w].pc = "markfail", ![w].msg = msg,
                                ![w].stamp = now, ![w].outcome = outcome,
                                ![w].raised = exc]

\* A variant of the status check that lets a row of any status through
IsPending_AnyStatus(store, t) == t \in DOMAIN store

\* The two early returns of _process_task: no such row, or not PENDING
IsPending(store, t) == t \in DOMAIN store /\ store[t].status = PENDING

\* queue.get() hands over the head of the queue
WorkerGet(w) ==
    /\ workers[w].pc = "get"
    /\ ~workers[w].cancel
    /\ queue # << >>
    /\ queue' = Tail(queue)
    /\ current_task_id' = Head(queue)
    /\ workers' = [workers EXCEPT ![w].pc = "select", ![w].tid = Head(queue)]
    /\ UNCHANGED <<tasks, running, worker_task, life, now, loads,
                   exports, resets>>
    /\ UNCHANGED svars

\* A variant of the select step without the "not PENDING" early return
WorkerSelect_NoSkip(w) ==
    /\ workers[w].pc = "select"
    /\ ~workers[w].cancel
    /\ IF workers[w].tid \in DOMAIN tasks
         THEN /\ workers' = [workers EXCEPT ![w].pc = "begin", ![w].stamp = now]
              /\ UNCHANGED current_task_id
         ELSE PipelineReturns(w)
    /\ UNCHANGED <<tasks, queue, running, worker_task, life, now, loads,
                   exports, resets>>
    /\ UNCHANGED svars

\* The select of _process_task and the checks on its result
WorkerSelect(w) ==
    LET t == workers[w].tid IN
    /\ workers[w].pc = "select"
    /\ ~workers[w].cancel
    /\ IF IsPending(tasks, t)
         THEN /\ workers' = [workers EXCEPT ![w].pc = "begin", ![w].stamp = now]
              /\ UNCHANGED current_task_id
         ELSE PipelineReturns(w)
    /\ UNCHANGED <<tasks, queue, running, worker_task, life, now, loads,
                   exports, resets>>
    /\ UNCHANGED svars

\* A variant that calls load_file before it looks for the upload file
WorkerBegin_LoadsFirst(w, uploadExists, hasClient) ==
    LET t == workers[w].tid IN
    /\ workers[w].pc = "begin"
    /\ ~workers[w].cancel
    /\ tasks' = UpdateRow(tasks, t, [tasks[t] EXCEPT !.status = PROCESSING,
                                        !.started_at = workers[w].stamp])
    /\ IF ~uploadExists
         THEN /\ workers' = [workers EXCEPT ![w].pc = "markfail",
                                ![w].msg = UploadMissing, ![w].stamp = now,
                                ![w].upload_exists = FALSE]
              /\ loads' = [loads EXCEPT ![t] = @ + 1]
         ELSE /\ loads' = [loads EXCEPT ![t] = @ + 1]
              /\ IF hasClient
                   THEN workers' = [workers EXCEPT ![w].pc = "load",
                                                   ![w].stamp = Null]
                   ELSE EnterMarkFailed(w,
                            AssetRipperErrorMessage(ClientNotInitialized),
                            "none", <<"load", NoClientClass>>)
    /\ UNCHANGED <<queue, running, worker_task, current_task_id, life, now,
                   exports, resets>>
    /\ UNCHANGED svars

\* The commit of PROCESSING, the upload-file check and the call of load_file
WorkerBegin(w, uploadExists, hasClient) ==
    LET t == workers[w].tid IN
    /\ workers[w].pc = "begin"
    /\ ~workers[w].cancel
    /\ tasks' = UpdateRow(tasks, t, [tasks[t] EXCEPT !.status = PROCESSING,
                                        !.started_at = workers[w].stamp])
    /\ IF ~uploadExists
         THEN /\ workers' = [workers EXCEPT ![w].pc = "markfail",
                                ![w].msg = UploadMissing, ![w].stamp = now,
                                ![w].upload_exists = FALSE]
              /\ UNCHANGED loads
         ELSE /\ loads' = [loads EXCEPT ![t] = @ + 1]
              /\ IF hasClient
                   THEN workers' = [workers EXCEPT ![w].pc = "load",
                                                   ![w].stamp = Null]
                   ELSE EnterMarkFailed(w,
                            AssetRipperErrorMessage(ClientNotInitialized),
                            "none", <<"load", NoClientClass>>)
    /\ UNCHANGED <<queue, running, worker_task, current_task_id, life, now,
                   exports, resets>>
    /\ UNCHANGED svars

\* A variant in which export_primary_content is called whatever the answer
\* to LoadFile was
WorkerLoadReturn_ExportsAnyway(w, outcome, hasClient) ==
    /\ workers[w].pc = "load"
    /\ ~workers[w].cancel
    /\ workers' = [workers EXCEPT ![w].pc = "export", ![w].outcome = outcome]
    /\ exports' = [exports EXCEPT ![workers[w].tid] = @ + 1]
    /\ UNCHANGED <<tasks, queue, running, worker_task, current_task_id, life,
                   now, loads, resets>>
    /\ UNCHANGED svars

\* POST /LoadFile ends; on success export_primary_content is called
WorkerLoadReturn(w, outcome, hasClient) ==
    /\ workers[w].pc = "load"
    /\ ~workers[w].cancel
    /\ IF outcome = "ok"
         THEN IF hasClient
                THEN workers' = [workers EXCEPT ![w].pc = "export",
                                                ![w].outcome = outcome]
                ELSE EnterMarkFailed(w,
                         AssetRipperErrorMessage(ClientNotInitialized), outcome,
                         <<"export", NoClientClass>>)
         ELSE EnterMarkFailed(w, AssetRipperErrorMessage(LoadFault(outcome)),
                              outcome, <<"load", LoadFaultClass(outcome)>>)
    /\ exports' = IF outcome = "ok"
                    THEN [exports EXCEPT ![workers[w].tid] = @ + 1]
                    ELSE exports
    /\ UNCHANGED <<tasks, queue, running, worker_task, current_task_id, life,
                   now, loads, resets>>
    /\ UNCHANGED svars

\* POST /Export/PrimaryContent ends; on success the Assets directory is
\* verified and measured and reset() is called
WorkerExportReturn(w, outcome, assetsExist, listing, hasClient) ==
    /\ workers[w].pc = "export"
    /\ ~workers[w].cancel
    /\ IF outcome # "ok"
         THEN EnterMarkFailed(w, AssetRipperErrorMessage(ExportFault(outcome)),
                              outcome, <<"export", ExportFaultClass(outcome)>>)
         ELSE IF ~assetsExist
                THEN EnterMarkFailed(w, AssetsMissing, outcome, << >>)
                ELSE workers' = [workers EXCEPT
                         ![w].pc = IF hasClient THEN "reset" ELSE "complete",
                         ![w].size = get_directory_size(listing),
                         ![w].files = listing,
                         ![w].outcome = outcome,
                         ![w].raised = IF hasClient THEN << >>
                                       ELSE <<"reset", NoClientClass>>,
                         ![w].stamp = IF hasClient THEN Null ELSE now]
    /\ resets' = IF outcome = "ok" /\ assetsExist
                   THEN [resets EXCEPT ![workers[w].tid] = @ + 1]
                   ELSE resets
    /\ UNCHANGED <<tasks, queue, running, worker_task, current_task_id, life,
                   now, loads, exports>>
    /\ UNCHANGED svars

\* POST /Reset ends, with any outcome; the COMPLETED update is built
WorkerResetReturn(w) ==
    /\ workers[w].pc = "reset"
    /\ ~workers[w].cancel
    /\ workers' = [workers EXCEPT ![w].pc = "complete", ![w].stamp = now]
    /\ UNCHANGED <<tasks, queue, running, worker_task, current_task_id, life,
                   now, loads,
                   exports, resets>>
    /\ UNCHANGED svars

\* The COMPLETED update is committed and _process_task returns
WorkerComplete(w) ==
    LET t == workers[w].tid IN
    /\ workers[w].pc = "complete"
    /\ ~workers[w].cancel
    /\ tasks' = UpdateRow(tasks, t,
                    CompletedValues(tasks[t], t, workers[w].stamp, workers[w].size))
    /\ PipelineReturns(w)
    /\ UNCHANGED <<queue, running, worker_task, life, now, loads,
                   exports, resets>>
    /\ UNCHANGED svars

\* A variant in which the exception is not handled and ends the loop
WorkerMarkFailed_Raises(w, hasClient) ==
    /\ workers[w].pc = "markfail"
    /\ ~workers[w].cancel
    /\ workers' = [workers EXCEPT ![w] = [NoWorker EXCEPT !.pc = "done"]]
    /\ current_task_id' = 0
    /\ UNCHANGED <<tasks, queue, running, worker_task, life, now, loads,
                   exports, resets>>
    /\ UNCHANGED svars

\* _mark_task_failed commits; after an AssetRipperError reset() is called
WorkerMarkFailed(w, hasClient) ==
    LET t == workers[w].tid IN
    /\ workers[w].pc = "markfail"
    /\ ~workers[w].cancel
    /\ tasks' = UpdateRow(tasks, t,
                    FailedValues(tasks[t], workers[w].stamp, workers[w].msg))
    /\ IF workers[w].msg[1] = "AssetRipper error" /\ hasClient
         THEN /\ workers' = [workers EXCEPT ![w].pc = "freset", ![w].stamp = Null,
                                            ![w].msg = NoMessage,
                                            ![w].outcome = "none",
                                            ![w].raised = << >>]
              /\ UNCHANGED current_task_id
         ELSE PipelineReturns(w)
    /\ resets' = IF workers[w].msg[1] = "AssetRipper error"
                   THEN [resets EXCEPT ![t] = @ + 1]
                   ELSE resets
    /\ UNCHANGED <<queue, running, worker_task, life, now, loads, exports>>
    /\ UNCHANGED svars

\* POST /Reset after a failure ends, with any outcome
WorkerFailResetReturn(w) ==
    /\ workers[w].pc = "freset"
    /\ ~workers[w].cancel
    /\ PipelineReturns(w)
    /\ UNCHANGED <<tasks, queue, running, worker_task, life, now, loads,
                   exports, resets>>
    /\ UNCHANGED svars

\* CancelledError is raised at the await the loop is suspended on: inside
\* _process_task it passes every "except Exception", runs the finally
\* clause of _worker and ends the loop
WorkerCancelled(w) ==
    /\ Alive(w)
    /\ workers[w].cancel
    /\ workers' = [workers EXCEPT ![w] = [NoWorker EXCEPT !.pc = "done"]]
    /\ current_task_id' = IF workers[w].pc = "get" THEN current_task_id ELSE 0
    /\ UNCHANGED <<tasks, queue, running, worker_task, life, now, loads,
                   exports, resets>>
    /\ UNCHANGED svars

----------------------------------------------------------------------------
(* TaskQueueManager.start() and stop() *)

Processing(store) == {t \in DOMAIN store : store[t].status = PROCESSING}

FreeWorkers == {w \in WorkerIds : ~Alive(w)}

\* A variant of start() without its guard
StartGuard_Always == TRUE

\* The guard of start(): "if self._running: return"
StartGuard == ~running

\* start(): the guard, _running, create_task(_worker()); the caller is then
\* suspended in _recover_interrupted_tasks
QStart ==
    /\ life.pc = "idle"
    /\ \/ /\ ~StartGuard
          /\ UNCHANGED vars
       \/ /\ StartGuard
          /\ FreeWorkers # {}
          /\ LET w == CHOOSE x \in FreeWorkers : \A y \in FreeWorkers : x <= y IN
               /\ workers' = [workers EXCEPT ![w] = [NoWorker EXCEPT !.pc = "get"]]
               /\ worker_task' = w
          /\ running' = TRUE
          /\ life' = [IdleLife EXCEPT !.pc = "recover_select",
                                      !.stranded = Processing(tasks),
                                      !.last = "start"]
          /\ UNCHANGED <<tasks, queue, current_task_id, now, loads,
                   exports, resets>>
    /\ UNCHANGED svars

\* _recover_interrupted_tasks: the select of the PROCESSING rows; the rows
\* found are changed in memory and a commit is awaited
QRecoverSelect ==
    /\ life.pc = "recover_select"
    /\ IF Processing(tasks) = {}
         THEN life' = [life EXCEPT !.pc = "idle"]
         ELSE life' = [life EXCEPT !.pc = "recover_commit",
                                   !.sel = Processing(tasks), !.stamp = now]
    /\ UNCHANGED <<tasks, queue, running, worker_task, current_task_id, workers,
                   now, loads,
                   exports, resets>>
    /\ UNCHANGED svars

\* A variant of the recovery that commits nothing
QRecoverCommit_NoWrite ==
    /\ life.pc = "recover_commit"
    /\ life' = [life EXCEPT !.pc = "idle", !.sel = {}, !.stamp = Null]
    /\ UNCHANGED <<tasks, queue, running, worker_task, current_task_id, workers,
                   now, loads,
                   exports, resets>>
    /\ UNCHANGED svars

\* _recover_interrupted_tasks: the commit, one UPDATE by primary key for
\* each row the select had returned; start() returns
QRecoverCommit ==
    /\ life.pc = "recover_commit"
    /\ tasks' = [t \in DOMAIN tasks |->
                    IF t \in life.sel
                      THEN FailedValues(tasks[t], life.stamp, InterruptedMessage)
                      ELSE tasks[t]]
    /\ life' = [life EXCEPT !.pc = "idle", !.sel = {}, !.stamp = Null]
    /\ UNCHANGED <<queue, running, worker_task, current_task_id, workers, now,
                   loads, exports, resets>>
    /\ UNCHANGED svars

\* stop(): the guard, _running, worker_task.cancel(); the caller is then
\* suspended on "await self.worker_task"
QStop ==
    /\ life.pc = "idle"
    /\ \/ /\ ~running
          /\ life' = [life EXCEPT !.last = "stop_noop"]
          /\ UNCHANGED <<tasks, queue, running, worker_task, current_task_id,
                         workers, now, loads,
                   exports, resets>>
       \/ /\ running
          /\ running' = FALSE
          /\ IF worker_task # 0
               THEN /\ workers' = [workers EXCEPT ![worker_task].cancel =
                                      Alive(worker_task)]
                    /\ life' = [IdleLife EXCEPT !.pc = "stop_join",
                           !.last = "stop",
                           !.inflight =
                              IF workers[worker_task].pc \in {"load", "export"}
                                THEN workers[worker_task].tid ELSE 0]
               ELSE UNCHANGED <<workers, life>>
          /\ UNCHANGED <<tasks, queue, worker_task, current_task_id, now,
                         loads, exports, resets>>
    /\ UNCHANGED svars

\* A variant of stop() that does not wait for the dispatch loop to end
QStopReturn_NoJoin ==
    /\ life.pc = "stop_join"
    /\ life' = [life EXCEPT !.pc = "idle"]
    /\ UNCHANGED <<tasks, queue, running, worker_task, current_task_id, workers,
                   now, loads,
                   exports, resets>>
    /\ UNCHANGED svars

\* "await self.worker_task" ends when the dispatch loop has ended
QStopReturn ==
    /\ life.pc = "stop_join"
    /\ ~Alive(worker_task)
    /\ life' = [life EXCEPT !.pc = "idle"]
    /\ UNCHANGED <<tasks, queue, running, worker_task, current_task_id, workers,
                   now, loads,
                   exports, resets>>
    /\ UNCHANGED svars

----------------------------------------------------------------------------
(* Environment *)

\* Time passes
Tick ==
    /\ now < MaxClock
    /\ now' = now + 1
    /\ UNCHANGED <<tasks, queue, running, worker_task, current_task_id, workers,
                   life, loads,
                   exports, resets>>
    /\ UNCHANGED svars

\* The service dies and is started again: the store is kept, everything
\* in memory is as constructed
Crash ==
    /\ queue' = << >>
    /\ running' = FALSE
    /\ worker_task' = 0
    /\ current_task_id' = 0
    /\ workers' = [w \in WorkerIds |-> NoWorker]
    /\ life' = IdleLife
    /\ UNCHANGED <<tasks, now, loads,
                   exports, resets>>
    /\ UNCHANGED svars

----------------------------------------------------------------------------
(* AssetRipperManager: the code between two suspensions as a function of   *)
(* the supervisor's state.  The functions are listed callee first.         *)

\* self._max_restarts
max_restarts == 5

\* The lifespan handler of main.py; the health-check loops are 1..MaxLoops
Main == 0
Threads == {Main} \cup LoopIds

\* A health-check loop that was never created.  join: the task awaited in
\* stop(); wp: the child whose exit is awaited in stop(); attempt: the
\* value _attempt_restart gave the counter; delay: the backoff slept;
\* probe: how the loop's last health probe ended; stops: the number of
\* stop() calls of the lifespan handler that have returned; ended: how the
\* last start() or stop() call of the coroutine ended
NoFrame == [pc |-> "none", cancel |-> FALSE, join |-> 0, wp |-> 0,
            attempt |-> 0, delay |-> 0, probe |-> "none", stops |-> 0,
            ended |-> "none"]

SupState ==
    [process |-> process, procs |-> procs, client |-> client,
     hct |-> health_check_task, healthy |-> is_healthy, rc |-> restart_count,
     th |-> th]

SupAssign(s) ==
    /\ process' = s.process
    /\ procs' = s.procs
    /\ client' = s.client
    /\ health_check_task' = s.hct
    /\ is_healthy' = s.healthy
    /\ restart_count' = s.rc
    /\ th' = s.th
    /\ UNCHANGED <<use_external_host, qvars>>

Goto(s, x, pc) == [s EXCEPT !.th[x].pc = pc]

\* The task is not done
Running(s, h) == s.th[h].pc \notin {"none", "done"}

\* An HTTP call can be answered: an external worker, or a child that runs
Reachable(s) == use_external_host \/ \E p \in ProcIds : s.procs[p] = "running"
\* A variant in which a worker that is not there answers all the same
Outcomes_Reachable(s) == HttpOutcomes

Outcomes(s) == IF Reachable(s) THEN HttpOutcomes ELSE {"timeout", "request"}

\* Where the lifespan handler is while it is in start()
StartPcs == {"init", "spawn", "ready_probe", "ready_sleep"}

\* A variant in which a restart that failed resets the counter as well
Raised_ResetsCount(s, x) ==
    IF x = Main
      THEN [s EXCEPT !.th[x].pc = IF s.th[x].pc \in StartPcs THEN "start_failed"
                                                             ELSE "stop_failed",
                     !.th[x].ended = IF s.th[x].pc \in StartPcs
                                       THEN "start_raised" ELSE "stop_raised"]
      ELSE [s EXCEPT !.rc = 0, !.th[x].pc = "sleep", !.th[x].join = 0,
                     !.th[x].wp = 0, !.th[x].attempt = 0, !.th[x].delay = 0,
                     !.th[x].ended = IF s.th[x].pc \in StartPcs
                                       THEN "start_raised" ELSE "stop_raised"]

\* An Exception leaves start() or stop(): _attempt_restart logs it and
\* returns to the loop; the lifespan handler re-raises it at startup and
\* logs it at shutdown
Raised(s, x) ==
    LET how == IF s.th[x].pc \in StartPcs THEN "start_raised" ELSE "stop_raised"
    IN
    IF x = Main
      THEN [s EXCEPT !.th[x].pc = IF s.th[x].pc \in StartPcs THEN "start_failed"
                                                             ELSE "stop_failed",
                     !.th[x].ended = how]
      ELSE [s EXCEPT !.th[x].pc = "sleep", !.th[x].join = 0, !.th[x].wp = 0,
                     !.th[x].attempt = 0, !.th[x].delay = 0,
                     !.th[x].ended = how]

\* Task.cancel(): a task suspended on another task that is not done hands
\* the request to that task; otherwise CancelledError is raised in the task
\* when it resumes
RECURSIVE Cancel(_, _, _)
Cancel(s, h, seen) ==
    IF ~Running(s, h) \/ h \in seen THEN s
    ELSE IF /\ s.th[h].pc = "stop_join"
            /\ s.th[h].join # h
            /\ Running(s, s.th[h].join)
           THEN Cancel(s, s.th[h].join, seen \cup {h})
           ELSE [s EXCEPT !.th[h].cancel = TRUE]

\* stop() returns: to the lifespan handler, or to _attempt_restart, which
\* computes the backoff from the counter as it is now and sleeps
StopReturns(s, x) ==
    IF x = Main
      THEN [s EXCEPT !.th[x].pc = "down", !.th[x].join = 0, !.th[x].wp = 0,
                     !.th[x].stops = @ + 1, !.th[x].ended = "stop_returned"]
      ELSE [s EXCEPT !.th[x].pc = "backoff", !.th[x].join = 0, !.th[x].wp = 0,
                     !.th[x].delay = 2 ^ s.rc, !.th[x].ended = "stop_returned"]

\* stop(): self.process = None; self._is_healthy = False
Stop4(s, x) == StopReturns([s EXCEPT !.process = 0, !.healthy = FALSE], x)

\* stop(): terminate() and the wait for the child's exit
Stop3(s, x) ==
    IF ~use_external_host /\ s.process # 0 /\ s.procs[s.process] = "running"
      THEN [s EXCEPT !.th[x].pc = "stop_wait", !.th[x].wp = s.process]
      ELSE Stop4(s, x)

\* stop(): the client is closed if there is one
Stop2(s, x) == IF s.client # 0 THEN Goto(s, x, "stop_close") ELSE Stop3(s, x)

\* stop(): the health-check task is cancelled and awaited if there is one
Stop1(s, x) ==
    IF s.hct # 0
      THEN LET c == Cancel(s, s.hct, {}) IN
           [c EXCEPT !.th[x].pc = "stop_join", !.th[x].join = s.hct]
      ELSE Stop2(s, x)

\* _attempt_restart up to its first suspension
AttemptRestart(s, x) ==
    IF s.rc >= max_restarts
      THEN Goto(s, x, "sleep")
      ELSE Stop1([s EXCEPT !.rc = @ + 1, !.th[x].attempt = s.rc + 1], x)

\* start() returns: to the lifespan handler, or to _attempt_restart, which
\* resets the counter and returns to the loop
StartReturns(s, x) ==
    IF x = Main
      THEN [s EXCEPT !.th[x].pc = "up", !.th[x].ended = "start_returned"]
      ELSE [s EXCEPT !.rc = 0, !.th[x].pc = "sleep", !.th[x].attempt = 0,
                     !.th[x].delay = 0, !.th[x].ended = "start_returned"]

\* Loop ids no task and no frame refers to
FreeLoops(s) ==
    {h \in LoopIds :
        /\ ~Running(s, h)
        /\ s.hct # h
        /\ \A y \in Threads : s.th[y].join # h}

\* A variant of start() that returns without a health-check task
ReadyOk_NoLoop(s, x, h) == StartReturns([s EXCEPT !.healthy = TRUE], x)

\* _wait_for_ready got 200: start() creates the health-check task h
ReadyOk(s, x, h) ==
    StartReturns([s EXCEPT !.healthy = TRUE, !.hct = h,
                           !.th[h] = [NoFrame EXCEPT !.pc = "sleep"]], x)

\* One pass of the loop of _wait_for_ready up to the probe
ReadyLoop(s, x, timedOut) ==
    IF ~use_external_host /\ s.process # 0 /\ s.procs[s.process] = "exited"
      THEN Raised(s, x)
    ELSE IF timedOut THEN Raised(s, x)
    ELSE IF s.client = 0 THEN Raised(s, x)
    ELSE Goto(s, x, "ready_probe")

\* start(): the client is created, _wait_for_ready is entered
Start2(s, x) == ReadyLoop([s EXCEPT !.client = 1], x, FALSE)

\* A variant of start() that spawns a child in either mode
Start1_AlwaysSpawn(s, x) == Goto(s, x, "spawn")

\* start() up to its first suspension
Start1(s, x) == IF use_external_host THEN Start2(s, x) ELSE Goto(s, x, "spawn")

\* Child ids no handle and no frame refers to
FreeProcs(s) ==
    {p \in ProcIds :
        /\ s.procs[p] # "running"
        /\ s.process # p
        /\ \A y \in Threads : s.th[y].wp # p}

----------------------------------------------------------------------------
(* AssetRipperManager: the steps of the lifespan handler and of the        *)
(* health-check loops                                                      *)

\* The event loop of the service is running
ServiceUp == th[Main].pc # "exit"

\* Thread x resumes at pc: it is suspended there and no CancelledError is
\* pending for it
At(x, pc) == ServiceUp /\ th[x].pc = pc /\ ~th[x].cancel

\* lifespan startup: await assetripper_manager.start()
MStart ==
    /\ At(Main, "init")
    /\ SupAssign(Start1(SupState, Main))

\* lifespan shutdown: await assetripper_manager.stop(); also a stop()
\* before start() and a stop() after stop()
MStop ==
    /\ ServiceUp
    /\ th[Main].pc \in {"init", "up", "down"}
    /\ th[Main].stops < MaxStops
    /\ SupAssign(Stop1(SupState, Main))

\* The lifespan handler ends: after shutdown, or when start() has raised
MExit ==
    /\ th[Main].pc \in {"down", "start_failed", "stop_failed"}
    /\ SupAssign(Goto(SupState, Main, "exit"))

\* _health_check_loop: the sleep ends, the child is checked, the probe sent
HWake(x) ==
    /\ At(x, "sleep")
    /\ SupAssign(
         IF ~use_external_host /\ (process = 0 \/ procs[process] # "running")
           THEN AttemptRestart([SupState EXCEPT !.healthy = FALSE], x)
         ELSE IF client = 0 THEN SupState
         ELSE Goto(SupState, x, "probe"))

\* _health_check_loop: the probe ends
HProbeReturn(x, outcome) ==
    /\ At(x, "probe")
    /\ outcome \in Outcomes(SupState)
    /\ LET s == [SupState EXCEPT !.th[x].probe = outcome] IN
       SupAssign(
         CASE outcome = "ok" ->
                Goto([s EXCEPT !.healthy = TRUE], x, "sleep")
           [] outcome = "status" ->
                Goto([s EXCEPT !.healthy = FALSE], x, "sleep")
           [] OTHER ->
                IF use_external_host
                  THEN Goto([s EXCEPT !.healthy = FALSE], x, "sleep")
                  ELSE AttemptRestart([s EXCEPT !.healthy = FALSE], x))

\* stop(): "await self.health_check_task" ends, because the task is done or
\* with a CancelledError, which stop() swallows
StopJoinReturn(x) ==
    /\ ServiceUp
    /\ th[x].pc = "stop_join"
    /\ th[x].cancel \/ ~Running(SupState, th[x].join)
    /\ SupAssign(Stop2([SupState EXCEPT !.th[x].cancel = FALSE,
                                        !.th[x].join = 0], x))

\* stop(): aclose() ends; self.client = None
StopCloseReturn(x) ==
    /\ At(x, "stop_close")
    /\ SupAssign(Stop3([SupState EXCEPT !.client = 0], x))

\* stop(): the child has exited within the 30 s
StopWaitReturn(x) ==
    /\ At(x, "stop_wait")
    /\ procs[th[x].wp] = "exited"
    /\ SupAssign(Stop4(SupState, x))

\* stop(): the 30 s have passed; self.process.kill()
StopWaitTimeout(x) ==
    /\ At(x, "stop_wait")
    /\ procs[th[x].wp] = "running"
    /\ SupAssign(
         IF process = 0 \/ procs[process] # "running"
           THEN Raised(SupState, x)
           ELSE [SupState EXCEPT !.procs[process] = "exited",
                                 !.th[x].pc = "stop_kill"])

\* stop(): the wait after kill() ends
StopKillReturn(x) ==
    /\ At(x, "stop_kill")
    /\ SupAssign(Stop4(SupState, x))

\* _attempt_restart: the backoff sleep ends, start() is called
BackoffReturn(x) ==
    /\ At(x, "backoff")
    /\ SupAssign(Start1(SupState, x))

\* start(): create_subprocess_exec ends, with a child or with an exception
SpawnReturn(x, ok) ==
    /\ At(x, "spawn")
    /\ IF ok
         THEN \E p \in FreeProcs(SupState) :
                /\ \A q \in FreeProcs(SupState) : p <= q
                /\ SupAssign(Start2([SupState EXCEPT !.procs[p] = "running",
                                                     !.process = p], x))
         ELSE SupAssign(Raised(SupState, x))

\* _wait_for_ready: the probe ends
ReadyProbeReturn(x, outcome) ==
    /\ At(x, "ready_probe")
    /\ outcome \in Outcomes(SupState)
    /\ IF outcome = "ok"
         THEN \E h \in FreeLoops(SupState) :
                /\ \A g \in FreeLoops(SupState) : h <= g
                /\ SupAssign(ReadyOk(SupState, x, h))
         ELSE SupAssign(Goto(SupState, x, "ready_sleep"))

\* _wait_for_ready: the one-second sleep ends, the next pass begins
ReadySleepReturn(x, timedOut) ==
    /\ At(x, "ready_sleep")
    /\ SupAssign(ReadyLoop(SupState, x, timedOut))

\* CancelledError is raised in a health-check loop suspended anywhere but
\* on "await self.health_check_task": the loop ends.  A create_subprocess_exec
\* that is cancelled may have started the child; asyncio then kills the child
\* and waits for its exit before the CancelledError leaves the call
HCancelled(x, spawned) ==
    /\ ServiceUp
    /\ th[x].cancel
    /\ Running(SupState, x)
    /\ th[x].pc # "stop_join"
    /\ LET s == [SupState EXCEPT !.th[x] = [NoFrame EXCEPT !.pc = "done"]] IN
       IF spawned
         THEN /\ th[x].pc = "spawn"
              /\ \E p \in FreeProcs(SupState) :
                    /\ \A q \in FreeProcs(SupState) : p <= q
                    /\ SupAssign([s EXCEPT !.procs[p] = "exited"])
         ELSE SupAssign(s)

\* A child exits: by itself, or after terminate()
ProcExits(p) ==
    /\ procs[p] = "running"
    /\ procs' = [procs EXCEPT ![p] = "exited"]
    /\ UNCHANGED <<use_external_host, process, client, health_check_task,
                   is_healthy, restart_count, th>>
    /\ UNCHANGED qvars

SupStep(x) ==
    \/ HWake(x)
    \/ \E outcome \in HttpOutcomes : HProbeReturn(x, outcome)
    \/ StopJoinReturn(x)
    \/ StopCloseReturn(x)
    \/ StopWaitReturn(x)
    \/ StopWaitTimeout(x)
    \/ StopKillReturn(x)
    \/ BackoffReturn(x)
    \/ \E ok \in BOOLEAN : SpawnReturn(x, ok)
    \/ \E outcome \in HttpOutcomes : ReadyProbeReturn(x, outcome)
    \/ \E timedOut \in BOOLEAN : ReadySleepReturn(x, timedOut)
    \/ \E spawned \in BOOLEAN : HCancelled(x, spawned)

----------------------------------------------------------------------------

InitSup ==
    /\ use_external_host \in BOOLEAN
    /\ process = 0
    /\ procs = [p \in ProcIds |-> "none"]
    /\ client = 0
    /\ health_check_task = 0
    /\ is_healthy = FALSE
    /\ restart_count = 0
    /\ th = [x \in Threads |-> IF x = Main THEN [NoFrame EXCEPT !.pc = "init"]
                                             ELSE NoFrame]

\* TaskQueueManager as constructed, with an empty store
InitTasks ==
    /\ tasks = << >>
    /\ queue = << >>
    /\ running = FALSE
    /\ worker_task = 0
    /\ current_task_id = 0
    /\ workers = [w \in WorkerIds |-> NoWorker]
    /\ life = IdleLife
    /\ now = 0
    /\ loads = [t \in TaskIds |-> 0]
    /\ exports = [t \in TaskIds |-> 0]
    /\ resets = [t \in TaskIds |-> 0]

Init == InitSup /\ InitTasks

\* The dispatch loop against any supervisor: whether self.client is set and
\* how each HTTP call ends are inputs
WorkerStep(w) ==
    \/ WorkerGet(w)
    \/ WorkerSelect(w)
    \/ \E uploadExists \in BOOLEAN, hasClient \in BOOLEAN :
          WorkerBegin(w, uploadExists, hasClient)
    \/ \E outcome \in HttpOutcomes, hasClient \in BOOLEAN :
          WorkerLoadReturn(w, outcome, hasClient)
    \/ \E outcome \in HttpOutcomes, assetsExist \in BOOLEAN,
          listing \in AssetsListings, hasClient \in BOOLEAN :
          WorkerExportReturn(w, outcome, assetsExist, listing, hasClient)
    \/ WorkerResetReturn(w)
    \/ WorkerComplete(w)
    \/ \E hasClient \in BOOLEAN : WorkerMarkFailed(w, hasClient)
    \/ WorkerFailResetReturn(w)
    \/ WorkerCancelled(w)

NextQueue ==
    \/ \E t \in TaskIds : Upload(t)
    \/ \E t \in TaskIds : AddTask(t)
    \/ \E w \in WorkerIds : WorkerStep(w)
    \/ QStart
    \/ QRecoverSelect
    \/ QRecoverCommit
    \/ QStop
    \/ QStopReturn
    \/ Tick
    \/ Crash

\* The queue manager does not read the supervisor's mode: one mode is enough
InitQueue == Init /\ ~use_external_host

SpecQueue == InitQueue /\ [][NextQueue]_vars

\* The supervisor alone: the lifespan handler, the health-check loops and
\* the children, with no task in the queue
NextSup ==
    \/ MStart
    \/ MStop
    \/ MExit
    \/ \E x \in Threads : SupStep(x)
    \/ \E p \in ProcIds : ProcExits(p)

SpecSup == Init /\ [][NextSup]_vars

\* The supervisor after its fifth restart has failed and with no child
\* running: the spawn of the fifth attempt raised (no client, no handle), or
\* its child died before it answered (the client and the handle are left)
InitDegraded ==
    /\ use_external_host = FALSE
    /\ \E c \in {0, 1} : client = c /\ process = c
    /\ procs = [p \in ProcIds |-> IF p = 1 THEN "exited" ELSE "none"]
    /\ health_check_task = 1
    /\ is_healthy = FALSE
    /\ restart_count = max_restarts
    /\ th = [x \in Threads |->
                IF x = Main THEN [NoFrame EXCEPT !.pc = "up"]
                ELSE IF x = 1 THEN [NoFrame EXCEPT !.pc = "sleep"]
                ELSE NoFrame]
    /\ InitTasks

\* The dispatch loop against that supervisor: self.client and the fate of
\* each HTTP call are read from the supervisor's state
DegradedWorkerStep(w) ==
    \/ WorkerGet(w)
    \/ WorkerSelect(w)
    \/ \E uploadExists \in BOOLEAN : WorkerBegin(w, uploadExists, client # 0)
    \/ \E outcome \in Outcomes(SupState) : WorkerLoadReturn(w, outcome, client # 0)
    \/ WorkerMarkFailed(w, client # 0)
    \/ WorkerFailResetReturn(w)

\* The service with the restart budget used up and the worker gone, for as
\* long as it is neither stopped nor killed
NextDegraded ==
    \/ \E t \in TaskIds : Upload(t)
    \/ \E t \in TaskIds : AddTask(t)
    \/ \E w \in WorkerIds : DegradedWorkerStep(w)
    \/ QStart
    \/ QRecoverSelect
    \/ QRecoverCommit
    \/ Tick
    \/ \E x \in LoopIds : HWake(x)

\* The event loop runs every coroutine that is ready, and every HTTP call
\* ends (each has a timeout)
SpecDegraded ==
    /\ InitDegraded
    /\ [][NextDegraded]_vars
    /\ \A w \in WorkerIds : WF_vars(DegradedWorkerStep(w))

----------------------------------------------------------------------------
(* The service from startup to the beginning of shutdown: the lifespan      *)
(* handler of main.py starts both managers, the dispatch loop calls the     *)
(* supervisor the health-check loops look after                             *)

\* A variant of the startup sequence that goes on after a failed start()
SupervisorStarted_OrFailed == th[Main].pc \in {"up", "start_failed"}

\* lifespan: "await assetripper_manager.start()" has returned normally
SupervisorStarted == th[Main].pc = "up"

\* lifespan: startup is over and shutdown has not begun; the server takes
\* requests only then
Serving ==
    /\ SupervisorStarted
    /\ life.pc = "idle"
    /\ life.last = "start"

\* lifespan startup: await task_queue_manager.start()
LStartQueue ==
    /\ SupervisorStarted
    /\ life.last = "none"
    /\ QStart

\* POST /upload while the service is up; identifiers are handed out in
\* order, MaxUploads of them
LUpload(t) ==
    /\ Serving
    /\ t = Cardinality(DOMAIN tasks) + 1
    /\ t <= MaxUploads
    /\ Upload(t)

\* A variant in which a call is answered whatever has become of the worker
CallOutcomes_Always(s) == HttpOutcomes

\* How an HTTP call of the pipeline can end: a 200 or a non-2xx answer need
\* an open client and a worker that runs
CallOutcomes(s) ==
    IF s.client # 0 /\ (use_external_host
                          \/ (s.process # 0 /\ s.procs[s.process] = "running"))
      THEN HttpOutcomes
      ELSE {"timeout", "request"}

LBegin(w, uploadExists) == WorkerBegin(w, uploadExists, client # 0)

LLoadReturn(w, outcome) ==
    /\ outcome \in CallOutcomes(SupState)
    /\ WorkerLoadReturn(w, outcome, client # 0)

LExportReturn(w, outcome, assetsExist, listing) ==
    /\ outcome \in CallOutcomes(SupState)
    /\ WorkerExportReturn(w, outcome, assetsExist, listing, client # 0)

LMarkFailed(w) == WorkerMarkFailed(w, client # 0)

\* The dispatch loop against the supervisor as it is
LWorkerStep(w) ==
    \/ WorkerGet(w)
    \/ WorkerSelect(w)
    \/ \E uploadExists \in BOOLEAN : LBegin(w, uploadExists)
    \/ \E outcome \in HttpOutcomes : LLoadReturn(w, outcome)
    \/ \E outcome \in HttpOutcomes, assetsExist \in BOOLEAN,
          listing \in AssetsListings : LExportReturn(w, outcome, assetsExist, listing)
    \/ WorkerResetReturn(w)
    \/ WorkerComplete(w)
    \/ LMarkFailed(w)
    \/ WorkerFailResetReturn(w)

NextService ==
    \/ MStart
    \/ LStartQueue
    \/ QRecoverSelect
    \/ \E t \in TaskIds : LUpload(t)
    \/ \E w \in WorkerIds : LWorkerStep(w)
    \/ MExit
    \/ \E x \in Threads : SupStep(x)
    \/ \E p \in ProcIds : ProcExits(p)

SpecService == Init /\ [][NextService]_vars

----------------------------------------------------------------------------
(* Properties of the task state machine *)

Terminal == {COMPLETED, FAILED}

\* C1: Once a task row is COMPLETED or FAILED no later operation changes its
\* status or any other field of it, and the status of every row is always
\* one of PENDING, PROCESSING, COMPLETED, FAILED.
C1_TerminalRowsNeverMutated ==
    /\ [](\A t \in DOMAIN tasks : tasks[t].status \in TaskStatus)
    /\ [][\A t \in DOMAIN tasks :
             tasks[t].status \in Terminal => tasks'[t] = tasks[t]]_vars

\* C2: At every instant at most one row of the store is PROCESSING.
C2_AtMostOneProcessing == Cardinality(Processing(tasks)) <= 1

\* The edges of the task state machine
Edges == {<<PENDING, PROCESSING>>, <<PROCESSING, COMPLETED>>,
          <<PROCESSING, FAILED>>}

\* C3: Every change of a row's status is PENDING to PROCESSING, PROCESSING
\* to COMPLETED or PROCESSING to FAILED.
C3_OnlyStateMachineEdges ==
    [][\A t \in DOMAIN tasks :
          tasks'[t].status # tasks[t].status =>
              <<tasks[t].status, tasks'[t].status>> \in Edges]_vars

\* C4: When start() has returned, every row that was PROCESSING when it was
\* called is FAILED with the message 'Interrupted by container restart' and
\* has completed_at set, however many such rows there were.
C4_RecoveryFailsStrandedRows ==
    (life.pc = "idle" /\ running) =>
        \A t \in life.stranded :
            /\ tasks[t].status = FAILED
            /\ tasks[t].error_message = InterruptedMessage
            /\ tasks[t].completed_at # Null

\* start() has returned after finding every row of the store stranded
C4_Witness ==
    /\ life.pc = "idle"
    /\ running
    /\ life.stranded = TaskIds
    /\ \A t \in TaskIds : tasks[t].error_message = InterruptedMessage

InPipeline == {w \in WorkerIds : workers[w].pc \in PipelinePcs}

\* C5: Identifiers leave the queue in the order they entered it, a pipeline
\* invocation begins only for the head of the queue and only when no other
\* invocation is in progress, and at most one dispatch loop is alive.
C5_FifoAndNonOverlap ==
    /\ [](Cardinality({w \in WorkerIds : Alive(w)}) <= 1)
    /\ [][\A w \in WorkerIds :
             (workers[w].pc = "get" /\ workers'[w].pc = "select") =>
                 /\ queue # << >>
                 /\ workers'[w].tid = Head(queue)
                 /\ queue' = Tail(queue)
                 /\ InPipeline = {}]_vars
    /\ [][\/ queue' = queue
          \/ queue' = << >>
          \/ queue # << >> /\ queue' = Tail(queue)
          \/ \E t \in TaskIds : queue' = Append(queue, t)]_vars

\* A second identifier waits in the queue while the first is in its pipeline
C5_Witness ==
    /\ InPipeline # {}
    /\ queue # << >>
    /\ \E w \in InPipeline : workers[w].tid # Head(queue)

\* C6: A load or export call in flight when stop() is called is not aborted:
\* when stop() has returned its task is COMPLETED or FAILED.
C6_StopLetsInFlightStepFinish ==
    (life.pc = "idle" /\ ~running /\ life.inflight # 0) =>
        tasks[life.inflight].status \in Terminal

\* C7: created_at <= started_at <= completed_at, for the fields that are set.
C7_TimestampsOrdered ==
    \A t \in DOMAIN tasks :
        LET r == tasks[t] IN
        /\ r.started_at # Null => r.created_at <= r.started_at
        /\ r.completed_at # Null => r.created_at <= r.completed_at
        /\ (r.started_at # Null /\ r.completed_at # Null) =>
               r.started_at <= r.completed_at

\* A row whose three timestamps are set and not all equal
C7_Witness ==
    \E t \in DOMAIN tasks :
        /\ tasks[t].started_at # Null
        /\ tasks[t].completed_at # Null
        /\ tasks[t].created_at < tasks[t].completed_at

\* C8: A dequeued task that is not PENDING is skipped, its row unchanged and
\* no load, export or reset call made for it; load_file is invoked at most
\* once for a task, however often its identifier is enqueued.
C8_NonPendingIsSkipped ==
    /\ [](\A t \in TaskIds : loads[t] <= 1)
    /\ [][\A w \in WorkerIds :
             (/\ workers[w].pc = "select"
              /\ workers[w].tid \in DOMAIN tasks
              /\ tasks[workers[w].tid].status # PENDING
              /\ workers'[w].pc # "select") =>
                 /\ tasks' = tasks
                 /\ loads' = loads
                 /\ workers'[w].pc \in {"get", "done", "none"}]_vars

\* The identifier of a task that was loaded and is no longer PENDING has
\* been dequeued again
C8_Witness ==
    \E w \in WorkerIds :
        /\ workers[w].pc = "select"
        /\ workers[w].tid \in DOMAIN tasks
        /\ tasks[workers[w].tid].status \in Terminal
        /\ loads[workers[w].tid] = 1

QueueStopped == life.pc = "idle" /\ life.last \in {"stop", "stop_noop"}

\* C13: A stop() called when the manager is not running (a second stop(),
\* or a stop() before start()) changes nothing; when stop() has returned the
\* manager is not running, no dispatch loop is alive and current_task_id is
\* None; and while the manager runs exactly one dispatch loop is alive.
C13_QueueStopIdempotent ==
    /\ [][(life'.last = "stop_noop" /\ life.last # "stop_noop") =>
              /\ ~running
              /\ life' = [life EXCEPT !.last = "stop_noop"]
              /\ UNCHANGED <<tasks, queue, running, worker_task,
                             current_task_id, workers>>]_vars
    /\ [](QueueStopped =>
              /\ ~running
              /\ \A w \in WorkerIds : ~Alive(w)
              /\ current_task_id = 0)
    /\ [](running => {w \in WorkerIds : Alive(w)} = {worker_task})

\* stop() was called a second time, with an identifier still in the queue,
\* after a dispatch loop had run
C13_Witness ==
    /\ life.pc = "idle"
    /\ life.last = "stop_noop"
    /\ queue # << >>
    /\ \E w \in WorkerIds : workers[w].pc = "done"

\* The sizes of the files of a listing, in order
FileSizes(listing) ==
    LET f == SelectSeq(listing, LAMBDA e : e.is_file)
    IN  [i \in 1..Len(f) |-> f[i].st_size]

\* C15: when a PENDING task is dequeued, its upload file exists, load and
\* export succeed and the Assets directory exists, the row goes PENDING to
\* PROCESSING (at the first commit of the pipeline) and PROCESSING to
\* COMPLETED (at its last), with completed_at stamped, the export path
\* persisted, the error message cleared and export_size_bytes equal to the
\* sum of the sizes of the files under the Assets directory
C15_HappyPath ==
    [][\A w \in WorkerIds :
          LET t == workers[w].tid IN
          /\ (workers[w].pc = "begin" /\ workers'[w].pc = "load") =>
                 /\ tasks[t].status = PENDING
                 /\ tasks'[t].status = PROCESSING
          /\ (workers[w].pc = "export" /\ workers'[w].pc \in {"reset", "complete"}) =>
                 workers'[w].size = SumSeq(FileSizes(workers'[w].files))
          /\ (workers[w].pc = "complete" /\ workers'[w].pc \in {"get", "done"}
                   /\ ~workers[w].cancel) =>
                 /\ tasks[t].status = PROCESSING
                 /\ tasks'[t].status = COMPLETED
                 /\ tasks'[t].completed_at = workers[w].stamp
                 /\ tasks'[t].completed_at # Null
                 /\ tasks'[t].export_path = t
                 /\ tasks'[t].error_message = NoMessage
                 /\ tasks'[t].export_size_bytes =
                        SumSeq(FileSizes(workers[w].files))]_vars

\* What the message of a fault of the supervisor has to name: the call and
\* the way it ended
FaultNamed(call, outcome) ==
    CASE call = "load" /\ outcome = "timeout"   -> "LoadFile timeout"
      [] call = "load" /\ outcome = "status"    -> "LoadFile failed with status"
      [] call = "load" /\ outcome = "request"   -> "LoadFile request failed"
      [] call = "export" /\ outcome = "timeout" -> "Export timeout"
      [] call = "export" /\ outcome = "status"  -> "Export failed with status"
      [] call = "export" /\ outcome = "request" -> "Export request failed"

\* C16: when load_file or export_primary_content ends in a fault of the
\* supervisor, the pipeline records the row FAILED with a message that names
\* the fault, calls reset() exactly once before it returns, and the row is
\* FAILED afterwards however the reset ends
C16_FaultFailsAndResetsOnce ==
    /\ [][\A w \in WorkerIds :
             LET t == workers[w].tid IN
             /\ (workers[w].pc \in {"load", "export"} /\ workers'[w].pc = "markfail"
                      /\ workers'[w].outcome \in HttpFaults) =>
                    workers'[w].msg = <<"AssetRipper error",
                        FaultNamed(workers[w].pc, workers'[w].outcome)>>
             /\ (workers[w].pc = "markfail" /\ ~workers[w].cancel
                      /\ workers'[w].pc \in {"freset", "get", "done"}
                      /\ \/ workers[w].outcome \in HttpFaults
                         \/ workers[w].msg = <<"AssetRipper error",
                                                ClientNotInitialized>>) =>
                    /\ tasks'[t].status = FAILED
                    /\ tasks'[t].error_message = workers[w].msg
                    /\ resets'[t] = resets[t] + 1
             /\ (workers[w].pc = "freset" /\ ~workers[w].cancel
                      /\ workers'[w].pc \in {"get", "done"}) =>
                    /\ tasks'[t] = tasks[t]
                    /\ tasks'[t].status = FAILED
                    /\ resets'[t] = resets[t]]_vars
    /\ [][\A t \in DOMAIN tasks :
             (tasks[t].status = FAILED /\ tasks[t].error_message # NoMessage
                  /\ tasks[t].error_message[1] = "AssetRipper error") =>
                tasks'[t].status = FAILED]_vars
    /\ [](\A t \in TaskIds : resets[t] <= 1)

C16_Witness ==
    \E t \in DOMAIN tasks, w \in WorkerIds :
        /\ tasks[t].status = FAILED
        /\ tasks[t].error_message = <<"AssetRipper error", "Export timeout">>
        /\ loads[t] = 1 /\ exports[t] = 1 /\ resets[t] = 1
        /\ workers[w].pc = "get"
        /\ current_task_id = 0

\* C17: if the upload file of a dequeued PENDING task is missing, the row
\* becomes FAILED with the file-not-found message, the pipeline returns, and
\* neither load_file nor export_primary_content is ever called for the task
C17_MissingUploadFailsWithoutCalls ==
    /\ [][\A w \in WorkerIds :
             LET t == workers[w].tid IN
             /\ (workers[w].pc = "begin" /\ workers'[w].pc \in PipelinePcs \ {"begin"}
                      /\ ~workers'[w].upload_exists) =>
                    /\ workers'[w].pc = "markfail"
                    /\ workers'[w].msg = <<"Unexpected error", "Upload file not found">>
                    /\ loads' = loads /\ exports' = exports
             /\ (workers[w].pc = "markfail" /\ ~workers[w].upload_exists
                      /\ ~workers[w].cancel /\ workers'[w].pc \in AlivePcs \cup {"done"}
                      /\ workers'[w].pc # "markfail") =>
                    /\ tasks'[t].status = FAILED
                    /\ tasks'[t].error_message =
                           <<"Unexpected error", "Upload file not found">>
                    /\ workers'[w].pc \in {"get", "done"}
                    /\ loads' = loads /\ exports' = exports /\ resets' = resets]_vars
    /\ [](\A w \in WorkerIds :
             ~workers[w].upload_exists =>
                 /\ workers[w].pc = "markfail"
                 /\ loads[workers[w].tid] = 0
                 /\ exports[workers[w].tid] = 0)
    /\ [](\A t \in DOMAIN tasks :
             tasks[t].error_message = <<"Unexpected error", "Upload file not found">> =>
                 /\ tasks[t].status = FAILED
                 /\ loads[t] = 0 /\ exports[t] = 0 /\ resets[t] = 0)

C17_Witness ==
    \E t \in DOMAIN tasks, w \in WorkerIds :
        /\ tasks[t].status = FAILED
        /\ tasks[t].error_message = <<"Unexpected error", "Upload file not found">>
        /\ tasks[t].started_at # Null
        /\ loads[t] = 0
        /\ workers[w].pc = "get"
        /\ current_task_id = 0

\* Task t has a FAILED row
Failed(t) == t \in DOMAIN tasks /\ tasks[t].status = FAILED

\* Task t has a PENDING row and is waiting in the queue
Waiting(t) ==
    /\ t \in DOMAIN tasks
    /\ tasks[t].status = PENDING
    /\ \E i \in 1..Len(queue) : queue[i] = t

\* C18: with the restart budget used up and the worker unreachable, enqueues
\* are still accepted, every task that waits in the queue while the dispatch
\* loop runs is eventually FAILED, no task stays PROCESSING forever, and no
\* task gets as far as the export call or is COMPLETED
C18_DegradedTasksFail ==
    /\ \A t \in TaskIds :
          (running /\ Waiting(t)) ~> Failed(t)
    /\ \A t \in TaskIds :
          (running /\ t \in DOMAIN tasks /\ tasks[t].status = PROCESSING)
              ~> Failed(t)
    /\ [](\A t \in TaskIds : exports[t] = 0)
    /\ [](\A t \in DOMAIN tasks : tasks[t].status # COMPLETED)
    /\ [](\A w \in WorkerIds : workers[w].pc \notin {"export", "reset", "complete"})
    /\ [](Len(queue) < MaxQueue => \A t \in TaskIds : ENABLED add_task(t))

C18_Witness ==
    \E t \in DOMAIN tasks :
        /\ restart_count = max_restarts
        /\ running
        /\ tasks[t].status = FAILED
        /\ tasks[t].error_message \in
               {AssetRipperErrorMessage("LoadFile timeout"),
                AssetRipperErrorMessage("LoadFile request failed"),
                AssetRipperErrorMessage(ClientNotInitialized)}
        /\ loads[t] = 1 /\ exports[t] = 0
        /\ \E u \in TaskIds : Waiting(u)

\* stop() has been called and start() has not been called since
ShutDown == life.last \in {"stop", "stop_noop"}

\* C19: add_task never blocks and appends the identifier to the tail of the
\* queue; once stop() has been called it is a no-op, so the queue does not
\* grow any more
C19_EnqueueAppendsUnlessStopped ==
    /\ [](\A t \in TaskIds : ENABLED add_task(t))
    /\ [][Len(queue') > Len(queue) =>
              \E t \in TaskIds : queue' = Append(queue, t)]_vars
    /\ [][ShutDown => Len(queue') <= Len(queue)]_vars

\* C21: reset() never raises to its caller, whatever goes wrong (worker
\* unreachable, non-2xx answer, timeout, no HTTP client): no call of reset()
\* by the pipeline ends in an exception
C21_ResetNeverRaises ==
    \A w \in WorkerIds :
        workers[w].raised # << >> => workers[w].raised[1] # "reset"

\* The kind of fault the callers of load_file / export_primary_content are
\* to see for each way the HTTP call can fail
ExpectedFaultKind(outcome) ==
    CASE outcome = "request" -> "AssetRipperConnectionError"
      [] outcome = "status"  -> "AssetRipperProcessError"
      [] outcome = "timeout" -> "timeout fault"

\* C22: load_file and export_primary_content map a failure of the HTTP layer
\* to a connection fault, a non-2xx answer to a process fault and an expired
\* timeout to a timeout fault, three kinds that differ from each other
C22_ThreeFaultKinds ==
    [][\A w \in WorkerIds :
          (workers[w].pc \in {"load", "export"} /\ workers'[w].pc = "markfail"
               /\ workers'[w].outcome \in HttpFaults) =>
              /\ workers'[w].raised[1] = workers[w].pc
              /\ workers'[w].raised[2] = ExpectedFaultKind(workers'[w].outcome)]_vars

\* Row t has been marked FAILED by the pipeline
PipelineFailed(t) ==
    /\ t \in DOMAIN tasks
    /\ tasks[t].status = FAILED
    /\ tasks[t].error_message # InterruptedMessage
    /\ tasks[t].error_message # NoMessage

\* C27: export_primary_content is called for a task only in the step in
\* which load_file for that task returned normally; a row becomes COMPLETED
\* only at the end of a pipeline whose export returned normally and whose
\* Assets directory was found (after which reset() was called); once a step
\* of the pipeline has failed, no load or export call is made for the task
C27_StepsAreHardDependencies ==
    [][/\ \A t \in TaskIds :
            /\ exports'[t] # exports[t] =>
                  \E w \in WorkerIds :
                     /\ workers[w].pc = "load" /\ workers[w].tid = t
                     /\ loads[t] >= 1
                     /\ workers'[w].outcome = "ok"
                     /\ exports'[t] = exports[t] + 1
            /\ (t \in DOMAIN tasks /\ tasks[t].status # COMPLETED
                   /\ tasks'[t].status = COMPLETED) =>
                  \E w \in WorkerIds :
                     /\ workers[w].pc = "complete" /\ workers[w].tid = t
                     /\ workers[w].outcome = "ok"
                     /\ exports[t] >= 1
                     /\ resets[t] >= 1
            /\ PipelineFailed(t) =>
                  loads'[t] = loads[t] /\ exports'[t] = exports[t]
       /\ \A w \in WorkerIds :
            LET t == workers[w].tid IN
            /\ (workers[w].pc = "export" /\ workers'[w].pc \in {"reset", "complete"}) =>
                  /\ workers'[w].outcome = "ok"
                  /\ resets'[t] = resets[t] + 1
            /\ (workers[w].pc = "reset" /\ workers'[w].pc # "reset") =>
                  workers'[w].pc \in {"complete", "done", "none"}
            /\ workers[w].pc \in {"markfail", "freset"} =>
                  /\ loads'[t] = loads[t] /\ exports'[t] = exports[t]
                  /\ workers'[w].pc \in {"markfail", "freset", "get", "done", "none"}]_vars

C27_Witness ==
    \E t \in DOMAIN tasks, u \in DOMAIN tasks :
        /\ tasks[t].status = COMPLETED
        /\ loads[t] = 1 /\ exports[t] = 1 /\ resets[t] = 1
        /\ tasks[u].status = FAILED
        /\ tasks[u].error_message = <<"AssetRipper error", "LoadFile timeout">>
        /\ loads[u] = 1 /\ exports[u] = 0
        /\ \A w \in WorkerIds : workers[w].pc \notin PipelinePcs


\* C28: the current-task marker is the dequeued identifier for as long as a
\* dispatch loop is between the dequeue and the return of the pipeline, and
\* none when no loop is there; the queue depth grows by one with each
\* enqueue and shrinks by one with each dequeue, in the step in which the
\* dequeued identifier becomes the current task, and changes in no other
\* step of a running service
C28_CurrentTaskAndDepth ==
    /\ [](\A w \in WorkerIds :
             workers[w].pc \in PipelinePcs => get_current_task_id = workers[w].tid)
    /\ []((\A w \in WorkerIds : workers[w].pc \notin PipelinePcs)
             => get_current_task_id = 0)
    /\ [][\/ queue' = queue
          \/ \E t \in TaskIds :
                queue' = Append(queue, t) /\ get_queue_size' = get_queue_size + 1
          \/ /\ queue # << >>
             /\ queue' = Tail(queue)
             /\ get_queue_size' = get_queue_size - 1
             /\ get_current_task_id' = Head(queue)
             /\ \E w \in WorkerIds :
                   /\ workers[w].pc = "get"
                   /\ workers'[w].pc = "select"
                   /\ workers'[w].tid = Head(queue)
          \/ /\ queue' = << >>
             /\ \A w \in WorkerIds : workers'[w] = NoWorker]_vars

C28_Witness ==
    \E w \in WorkerIds :
        /\ workers[w].pc = "export"
        /\ get_current_task_id = workers[w].tid
        /\ get_current_task_id # 0
        /\ get_queue_size = 1
        /\ Head(queue) # get_current_task_id
        /\ \E t \in DOMAIN tasks : tasks[t].status = COMPLETED /\ loads[t] = 1


\* C30: a row carries an export path or an export size only while its
\* status is COMPLETED
C30_ExportFactsOnlyWhenCompleted ==
    \A t \in DOMAIN tasks :
        (tasks[t].export_path # Null \/ tasks[t].export_size_bytes # Null)
            => tasks[t].status = COMPLETED

\* C31: the commit of the recovery scan of start() changes only rows that
\* were PROCESSING when that start() was called, and the scan selects no
\* other row
C31_RecoveryFailsOnlyStrandedRows ==
    /\ [](life.sel \subseteq life.stranded)
    /\ [][(life.pc = "recover_commit" /\ life'.pc = "idle") =>
             \A t \in DOMAIN tasks :
                 tasks'[t] # tasks[t] => t \in life.stranded]_vars


\* The pipeline of dispatch loop w, which has passed its early returns,
\* returns to the loop in this step
PipelineReturnsNow(w) ==
    /\ workers[w].pc \in PipelinePcs \ {"select"}
    /\ ~workers[w].cancel
    /\ workers'[w].pc \in {"get", "done"}

\* C34: a pipeline that has called load_file for its task calls reset()
\* before it returns, whatever the outcome, so that load_file is called for
\* a task only when reset() has been called for every task loaded before
C34_ResetBeforeNextLoad ==
    [][/\ \A w \in WorkerIds :
            (PipelineReturnsNow(w) /\ loads[workers[w].tid] >= 1) =>
                resets'[workers[w].tid] >= 1
       /\ \A u \in TaskIds :
            loads'[u] > loads[u] =>
                \A t \in TaskIds \ {u} : loads[t] >= 1 => resets[t] >= 1]_vars

----------------------------------------------------------------------------
(* Properties of the supervisor *)

\* C10: In self-managed mode the restart attempts made since the counter
\* was last zero are numbered 1, 2, ..., at most max_restarts of them; the
\* backoff of attempt i is 2^i seconds, so the delays increase strictly; and
\* a health-check failure found when the counter is at max_restarts starts
\* no restart.
C10_RestartBackoff ==
    /\ [](\A x \in LoopIds :
             th[x].pc = "backoff" => th[x].delay = 2 ^ th[x].attempt)
    /\ [](\A x \in LoopIds : th[x].attempt <= max_restarts)
    /\ [][\A x \in LoopIds :
             (restart_count >= max_restarts /\ th[x].pc \in {"sleep", "probe"})
                 => th'[x].pc \in {"sleep", "probe", "done", "none"}]_vars

\* The health probe of loop x ends in this step
ProbeEnds(x) ==
    th[x].pc = "probe" /\ ~th[x].cancel /\ th'[x].pc \notin {"probe", "done"}

\* C11: In self-managed mode a health probe that ends with 200 sets the
\* health flag; one that ends with another status, a timeout or a
\* connection failure clears it and, while the counter is below
\* max_restarts, begins a restart attempt (the counter goes up by one).
C11_FailedProbeRestarts ==
    [][\A x \in LoopIds :
          (~use_external_host /\ ProbeEnds(x)) =>
              IF th'[x].probe = "ok"
                THEN is_healthy'
                ELSE /\ ~is_healthy'
                     /\ restart_count < max_restarts =>
                            /\ restart_count' = restart_count + 1
                            /\ th'[x].attempt = restart_count']_vars

\* The restart budget is used up: the counter is at max_restarts and no
\* health-check loop is inside _attempt_restart
Exhausted ==
    /\ restart_count = max_restarts
    /\ \A x \in LoopIds : th[x].pc \in {"none", "sleep", "probe", "done"}

\* C12: Once the restart budget is used up (the counter is at max_restarts
\* and the last attempt has ended) the supervisor begins no further restart,
\* and the health flag is false from then on.
C12_ExhaustedStaysUnhealthy ==
    /\ [][Exhausted => Exhausted']_vars
    /\ [](Exhausted => ~is_healthy)

\* C14: stop() of the supervisor never raises, also when it is called
\* before start() or a second time, and whenever it has returned there is
\* no client, no process handle, the health flag is false and no
\* health-check loop is running.
C14_SupervisorStopIdempotent ==
    /\ th[Main].pc # "stop_failed"
    /\ th[Main].pc = "down" =>
           /\ client = 0
           /\ process = 0
           /\ ~is_healthy
           /\ \A x \in LoopIds : ~Running(SupState, x)

\* Positions inside create_subprocess_exec, process.wait(), process.kill()
\* and the back-off sleep of _attempt_restart
OwnerPcs == {"spawn", "stop_wait", "stop_kill", "backoff"}

\* C20: in external-host mode the supervisor never spawns, terminates or
\* kills a child and never restarts: there is no process handle and no child,
\* the restart counter stays 0, no coroutine is ever inside a spawn, a wait
\* for a child, a kill or a restart, and a failed probe only clears the
\* health flag
C20_ExternalHostNeverOwnsProcess ==
    /\ [](use_external_host =>
              /\ process = 0
              /\ \A p \in ProcIds : procs[p] = "none"
              /\ restart_count = 0
              /\ \A x \in Threads : th[x].pc \notin OwnerPcs /\ th[x].attempt = 0
              /\ \A x \in LoopIds : th[x].pc \in {"none", "sleep", "probe", "done"})
    /\ [][\A x \in LoopIds :
             (use_external_host /\ ProbeEnds(x) /\ th'[x].probe # "ok") =>
                 /\ ~is_healthy'
                 /\ th' = [th EXCEPT ![x].pc = "sleep", ![x].probe = th'[x].probe]
                 /\ UNCHANGED <<client, process, procs, health_check_task,
                                restart_count>>]_vars

C20_Witness ==
    /\ use_external_host
    /\ th[Main].pc = "up"
    /\ client = 1
    /\ ~is_healthy
    /\ \E x \in LoopIds :
          /\ health_check_task = x
          /\ th[x].pc = "sleep"
          /\ th[x].probe \in {"timeout", "request"}

\* Coroutine x leaves start() in this step
StartEnds(x) ==
    /\ ~th[x].cancel
    /\ th[x].pc \in StartPcs \ {"init"}
    /\ th'[x].pc \notin StartPcs

\* C23: start() returns normally only from a readiness probe that succeeded;
\* on return the health flag is true and a health-check loop, created by
\* this start(), is running as self.health_check_task.  If the child has
\* died or the startup deadline has passed, start() raises, and a start()
\* that raises starts no health-check loop
C23_StartReturnsReadyOrRaises ==
    [][\A x \in Threads :
          /\ (StartEnds(x) /\ th'[x].ended = "start_returned") =>
                 /\ th[x].pc = "ready_probe"
                 /\ is_healthy'
                 /\ health_check_task' \in LoopIds
                 /\ ~Running(SupState, health_check_task')
                 /\ th'[health_check_task'].pc = "sleep"
          /\ (StartEnds(x) /\ th'[x].ended = "start_raised") =>
                 /\ health_check_task' = health_check_task
                 /\ \A h \in LoopIds : th'[h].pc # "none" => th[h].pc # "none"
          /\ (th[x].pc = "ready_sleep" /\ th'[x].pc # "ready_sleep" /\ ~th[x].cancel
                  /\ ~use_external_host /\ process # 0 /\ procs[process] = "exited") =>
                 StartEnds(x) /\ th'[x].ended = "start_raised"
          /\ StartEnds(x) => th'[x].ended \in {"start_returned", "start_raised"}]_vars

C23_Witness ==
    /\ th[Main].pc = "up"
    /\ th[Main].ended = "start_returned"
    /\ is_healthy
    /\ health_check_task \in LoopIds
    /\ th[health_check_task].pc = "sleep"
    /\ \E x \in LoopIds : th[x].ended = "start_raised"

\* Where a coroutine is while it is in stop()
StopPcs == {"stop_join", "stop_close", "stop_wait", "stop_kill"}

\* stop() called by coroutine x returns in this step
StopReturnsNow(x) ==
    /\ th[x].pc \in StopPcs \cup {"up", "down", "init", "probe", "sleep"}
    /\ th'[x].pc \in {"down", "backoff"}
    /\ th'[x].ended = "stop_returned"
    /\ \/ th[x].pc \in StopPcs
       \/ x = Main /\ th'[x].stops = th[x].stops + 1
       \/ x # Main /\ th[x].attempt = 0 /\ th'[x].attempt > 0

\* C25: in self-managed mode stop() kills the child only after the wait that
\* follows terminate() has timed out with the child still running; when
\* stop() returns no child runs, no health-check loop other than the caller
\* runs, the client is closed and the health flag is false
C25_StopTerminatesThenKills ==
    [][~use_external_host =>
         \A x \in Threads :
            /\ (th'[x].pc = "stop_kill" /\ th[x].pc # "stop_kill") =>
                   /\ th[x].pc = "stop_wait"
                   /\ procs[th[x].wp] = "running"
            /\ (th'[x].pc = "stop_wait" /\ th[x].pc # "stop_wait") =>
                   /\ th'[x].wp = process
                   /\ procs[process] = "running"
            /\ StopReturnsNow(x) =>
                   /\ \A p \in ProcIds : procs'[p] # "running"
                   /\ \A h \in LoopIds \ {x} : th'[h].pc \in {"none", "done"}
                   /\ client' = 0
                   /\ ~is_healthy']_vars


\* C29: the restart counter is lowered only in the step in which the start()
\* called by _attempt_restart, after its stop() and its backoff, returns
\* normally, and then it becomes zero; no other step lowers it, and it never
\* exceeds max_restarts
C29_CounterResetOnlyBySuccess ==
    /\ [][restart_count' < restart_count =>
             /\ restart_count' = 0
             /\ \E x \in LoopIds :
                   /\ th[x].pc = "ready_probe"
                   /\ th[x].attempt >= 1
                   /\ th[x].ended = "stop_returned"
                   /\ th'[x].pc = "sleep"
                   /\ th'[x].ended = "start_returned"
                   /\ is_healthy']_vars
    /\ [](restart_count <= max_restarts)

C29_Witness ==
    /\ restart_count = 0
    /\ \E x \in LoopIds :
          /\ th[x].ended = "start_returned"
          /\ th[x].pc = "sleep"
          /\ th[x].attempt = 0
    /\ process # 0 /\ procs[process] = "running"
    /\ is_healthy


\* The health-check loops that are running
RunningLoops == {h \in LoopIds : Running(SupState, h)}

\* C32: at any instant at most one health-check loop is running
C32_AtMostOneHealthLoop == Cardinality(RunningLoops) <= 1


\* The children of the supervisor that are alive
RunningProcs == {p \in ProcIds : procs[p] = "running"}

\* C33: in self-managed mode at most one child is alive at any instant, the
\* supervisor's process handle refers to it, and a child is spawned only
\* when no other child is alive
C33_AtMostOneChild ==
    /\ [](~use_external_host =>
             /\ Cardinality(RunningProcs) <= 1
             /\ \A p \in RunningProcs : process = p)
    /\ [][~use_external_host =>
             \A p \in ProcIds :
                 (procs[p] # "running" /\ procs'[p] = "running") =>
                     RunningProcs = {}]_vars


\* start() called by coroutine x raises in this step
StartRaisesNow(x) ==
    /\ th[x].pc \in StartPcs
    /\ ~th[x].cancel
    /\ th'[x].pc \notin StartPcs
    /\ th'[x].ended = "start_raised"

\* C35: when start() raises, no child of the supervisor is running, there
\* is no HTTP client and the health flag is false
C35_FailedStartLeavesNothing ==
    [][\A x \in Threads :
          StartRaisesNow(x) =>
              /\ \A p \in ProcIds : procs'[p] # "running"
              /\ client' = 0
              /\ ~is_healthy']_vars


\* C36: whenever the health flag is true the supervisor has an HTTP client
C36_HealthyImpliesClient == is_healthy => client # 0

----------------------------------------------------------------------------
(* Properties of the service *)

\* C24: if the supervisor's start() fails during startup, the failure leaves
\* the startup sequence: TaskQueueManager.start() is never called, no
\* dispatch loop exists, nothing is enqueued and no call is made to the
\* worker for any task
C24_FailedStartAbortsStartup ==
    (th[Main].ended = "start_raised") =>
        /\ th[Main].pc \in {"start_failed", "exit"}
        /\ ~running
        /\ life = IdleLife
        /\ \A w \in WorkerIds : workers[w] = NoWorker
        /\ tasks = << >> /\ queue = << >>
        /\ \A t \in TaskIds : loads[t] = 0 /\ exports[t] = 0 /\ resets[t] = 0

C24_Witness ==
    /\ th[Main].pc = "exit"
    /\ th[Main].ended = "start_raised"
    /\ ~running
    /\ life.last = "none"

\* Health-check loop x is inside _attempt_restart
Restarting(x) ==
    th[x].pc \in {"stop_join", "stop_close", "stop_wait", "stop_kill", "backoff",
                  "spawn", "ready_probe", "ready_sleep"}

\* The worker the supervisor's handle refers to runs and the client is open
WorkerUp ==
    /\ client # 0
    /\ use_external_host \/ (process # 0 /\ procs[process] = "running")

====
